---------------------------- MODULE Spec2Model ----------------------------
(***************************************************************************)
(* A model of the sumcheck-protocol crate:                                 *)
(*   fp.rs           prime-field element Fp over a machine word            *)
(*   upolynomial.rs  univariate polynomials (roots, interpolation, div)    *)
(*   mpolynomial.rs  the restricted multivariate statement polynomial      *)
(*   lib.rs          the SumcheckProtocol prover/verifier engine           *)
(*                                                                         *)
(* Word width.  TLC's integers are 32 bits wide, so the u64 word and the   *)
(* Goldilocks prime 2^64 - 2^32 + 1 cannot be written down.  The model     *)
(* keeps the shape of fp.rs and scales the word: a word has WordBits bits  *)
(* and MODULO = 2^WordBits - 2^(WordBits \div 2) + 1, which for 4 bits is  *)
(* 13 and for 5 bits is 29: a prime above half the word range, so that     *)
(* overflowing_add(x, MODULO) really carries and MODULO itself is a        *)
(* representable, non-canonical word, as in the source.  All word          *)
(* arithmetic is taken modulo 2^WordBits with explicit carry and borrow.   *)
(*                                                                         *)
(* Panics.  A failed assert!/assert_eq! or an arithmetic underflow is a    *)
(* panic.  A scalar routine that panics yields Panic, a polynomial routine *)
(* yields PanicPoly, and the engine records it in the variable aborted.    *)
(***************************************************************************)
EXTENDS Integers, Sequences, FiniteSets, TLC

(***************************************************************************)
(* Bounds of the model.                                                    *)
(***************************************************************************)
\* bits of a machine word (u64 in the source)
WordBits == 4
\* Fp::sample draws a challenge from 0 .. MaxSample
MaxSample == 2
\* coefficients a cheating caller puts into a round polynomial: 0 .. MaxTamper
MaxTamper == 1
\* longest round polynomial a cheating caller builds from scratch
MaxTamperLen == 3
\* verify calls followed in one run of the engine
MaxRounds == 4
\* exponents tried on Fp::pow: 0 .. MaxExp
MaxExp == 3
\* longest list of points / roots handed to the polynomial routines
MaxPoints == 3
\* x and y coordinates of those points: 0 .. MaxCoord
MaxCoord == 3

VARIABLES
    \* ---- SumcheckProtocol (lib.rs:11-18)
    polynomial,             \* the statement MPolynomial
    interaction_completed,
    randomness,
    statement,
    step,
    previous_step,
    \* ---- the caller of the engine
    aborted,                \* an assertion of the engine has failed
    call,                   \* the latest call: its name, argument and result
    honest,                 \* so far: prove(), verify(result), prove(), ...
    rounds,                 \* verify calls made
    \* ---- an Fp computation under way (fp.rs)
    fp_a, fp_b,             \* the operands
    fp_pc,                  \* position inside Div::div / Fp::inverse
    fp_loop,                \* the locals u, v, s, r of Fp::inverse
    fp_op,                  \* the operation that has just finished
    fp_out,                 \* its results
    \* ---- a UPolynomial computation (upolynomial.rs)
    up_points,              \* the (x, y) pairs handed in
    up_op,                  \* the latest routine applied to them
    up_out                  \* its result

engineVars == <<polynomial, interaction_completed, randomness, statement,
                step, previous_step, aborted, call, honest, rounds>>
fpVars == <<fp_a, fp_b, fp_pc, fp_loop, fp_op, fp_out>>
upVars == <<up_points, up_op, up_out>>
vars == <<engineVars, fpVars, upVars>>

(***************************************************************************)
(* fp.rs                                                                   *)
(***************************************************************************)
Word == 2 ^ WordBits
MODULO == 2 ^ WordBits - 2 ^ (WordBits \div 2) + 1
Field == 0 .. (MODULO - 1)

\* the outcome of a routine that panicked
Panic == -1
PanicPoly == <<Panic>>

FpZero == 0
FpOne == 1
FpFrom(value) == value % MODULO

\* impl Add / Sub / Mul for Fp: widened to u128, reduced.  No operand of the
\* model exceeds MODULO, so the widened subtraction never underflows.
FpAdd(a, b) == (a + b) % MODULO
FpSub(a, b) == (a + MODULO - b) % MODULO
FpMul(a, b) == (a * b) % MODULO

\* Fp::neg(&self) and impl Neg for Fp
FpNeg(a) == MODULO - a
NegOp(a) == MODULO - a

RECURSIVE PowLoop(_, _, _)
PowLoop(result, base, p) ==
    IF p = 0 THEN result
    ELSE PowLoop(IF p % 2 = 1 THEN FpMul(result, base) ELSE result,
                 FpMul(base, base), p \div 2)
FpPow(a, p0) == PowLoop(1, a, p0)

overflowing_add(a, b) == [val |-> (a + b) % Word, flag |-> a + b >= Word]
overflowing_sub(a, b) == [val |-> (a - b + Word) % Word, flag |-> a < b]
\* x | (1 << (WordBits - 1))
SetTopBit(x) == IF x < Word \div 2 THEN x + Word \div 2 ELSE x

\* HalveCofactor with the carry of the addition dropped
HalveCofactorDropsCarry(c) ==
    IF c % 2 = 0 THEN c \div 2 ELSE overflowing_add(c, MODULO).val \div 2
\* one pass of the body of `while v & 1 == 0` / `while u & 1 == 0`: the
\* cofactor c is halved, after adding the modulus when it is odd
HalveCofactor(c) ==
    IF c % 2 = 0 THEN c \div 2
    ELSE LET a == overflowing_add(c, MODULO)
         IN  IF a.flag THEN SetTopBit(a.val \div 2) ELSE a.val \div 2
\* s -= r (or r -= s) with the borrow repaired by adding the modulus
SubCofactor(c, d) ==
    LET b == overflowing_sub(c, d)
    IN  IF b.flag THEN overflowing_add(b.val, MODULO).val ELSE b.val

\* Fp::inverse, one step at a time.  at is the place in the loop nest:
\*   "outer"    the test of `while u != 1 && v != 1`
\*   "halve_v"  the test and body of `while v & 1 == 0`
\*   "halve_u"  the test and body of `while u & 1 == 0`
\*   "subtract" the `if v >= u` statement
\*   "return"   the loop has been left
InverseEnter(a) == [at |-> "outer", u |-> MODULO, v |-> a, s |-> 1, r |-> 0]
HalveV(l) == [l EXCEPT !.v = l.v \div 2, !.s = HalveCofactor(l.s)]
HalveU(l) == [l EXCEPT !.u = l.u \div 2, !.r = HalveCofactor(l.r)]
Subtract(l) ==
    IF l.v >= l.u
    THEN [l EXCEPT !.v = l.v - l.u, !.s = SubCofactor(l.s, l.r)]
    ELSE [l EXCEPT !.u = l.u - l.v, !.r = SubCofactor(l.r, l.s)]
InverseStep(l) ==
    CASE l.at = "outer" ->
            [l EXCEPT !.at = IF l.u # 1 /\ l.v # 1 THEN "halve_v" ELSE "return"]
      [] l.at = "halve_v" ->
            IF l.v % 2 = 0 THEN HalveV(l) ELSE [l EXCEPT !.at = "halve_u"]
      [] l.at = "halve_u" ->
            IF l.u % 2 = 0 THEN HalveU(l) ELSE [l EXCEPT !.at = "subtract"]
      [] l.at = "subtract" -> [Subtract(l) EXCEPT !.at = "outer"]
InverseReturn(l) == IF l.u = 1 THEN FpFrom(l.r) ELSE FpFrom(l.s)

RECURSIVE InverseLoop(_)
InverseLoop(l) ==
    IF l.at = "return" THEN InverseReturn(l) ELSE InverseLoop(InverseStep(l))
FpInverse(a) == IF a = 0 THEN 0 ELSE InverseLoop(InverseEnter(a))

FpDiv(a, b) == FpMul(FpFrom(a), FpInverse(FpFrom(b)))

\* Fp::multi_inv: prefix products, one inverse, a reverse sweep
RECURSIVE Partials(_, _)
Partials(a, i) ==
    IF i = 0 THEN <<FpOne>>
    ELSE LET p == Partials(a, i - 1) IN Append(p, FpMul(p[i], a[i]))
RECURSIVE MultiInvSweep(_, _, _, _, _)
MultiInvSweep(a, partials, inv, outputs, i) ==
    IF i = 0 THEN outputs
    ELSE MultiInvSweep(a, partials, FpMul(inv, a[i]),
             [outputs EXCEPT ![i] = IF a[i] = FpZero THEN FpOne
                                    ELSE FpMul(partials[i], inv)],
             i - 1)
multi_inv(a) ==
    LET partials == Partials(a, Len(a))
    IN  MultiInvSweep(a, partials, FpInverse(partials[Len(a) + 1]),
                      [i \in 1 .. Len(a) |-> FpZero], Len(a))

Canonical(v) == v \in Field

(***************************************************************************)
(* upolynomial.rs.  A UPolynomial is its coefficient vector; Rust index i  *)
(* is index i + 1 here.                                                    *)
(***************************************************************************)
\* UPolynomial::degree: `len() - 1` on usize.  On no coefficients the debug
\* build panics on the subtraction and the release build wraps to usize::MAX,
\* UsizeMax here.
UsizeMax == Word - 1
degree(coefficients) ==
    IF Len(coefficients) = 0 THEN {Panic, UsizeMax} ELSE {Len(coefficients) - 1}

\* UPolynomial::eval.  On no coefficients both builds panic: the debug build
\* on `coefficients_len - 1`, the release build on the assert_eq that follows.
RECURSIVE UEvalLoop(_, _, _, _)
UEvalLoop(coefficients, x, i, result) ==
    IF i > Len(coefficients) THEN result
    ELSE UEvalLoop(coefficients, x, i + 1,
            IF i <= Len(x)
            THEN FpAdd(result, FpMul(coefficients[i],
                                     FpPow(x[i], Len(coefficients) - i)))
            ELSE FpAdd(result, coefficients[i]))
UEval(coefficients, x) ==
    IF Len(coefficients) = 0 \/ Len(x) # Len(coefficients) - 1 THEN Panic
    ELSE UEvalLoop(coefficients, x, 1, 0)

\* UPolynomial::zero_at_given_x: the inner `for j in 0..root.len() - 1`
RECURSIVE RootSweep(_, _, _)
RootSweep(root, x, j) ==
    IF j > Len(root) - 1 THEN root
    ELSE RootSweep([root EXCEPT ![j] = FpSub(root[j], FpMul(root[j + 1], x))],
                   x, j + 1)
RECURSIVE RootLoop(_, _, _)
RootLoop(root, xs, k) ==
    IF k > Len(xs) THEN root
    ELSE RootLoop(RootSweep(<<FpZero>> \o root, xs[k], 1), xs, k + 1)
zero_at_given_x(xs) == RootLoop(<<FpOne>>, xs, 1)

\* impl Div for UPolynomial.  a_pos, b_pos and diff are Rust indices.  The
\* model divides only by the two-coefficient divisors interpolate builds.
RECURSIVE DivInner(_, _, _, _, _)
DivInner(a_copy, rhs, quot, diff, i) ==
    IF i < 0 THEN a_copy
    ELSE DivInner([a_copy EXCEPT ![diff + i + 1] =
                       FpSub(a_copy[diff + i + 1], FpMul(rhs[i + 1], quot))],
                  rhs, quot, diff, i - 1)
RECURSIVE DivLoop(_, _, _, _, _)
DivLoop(a_copy, rhs, output, a_pos, diff) ==
    LET b_pos == Len(rhs) - 1
        quot == FpDiv(a_copy[a_pos + 1], rhs[b_pos + 1])
        a_next == DivInner(a_copy, rhs, quot, diff, b_pos)
    IN  IF diff = 0 THEN Append(output, quot)
        ELSE DivLoop(a_next, rhs, Append(output, quot), a_pos - 1, diff - 1)
UDiv(self, rhs) ==
    IF Len(self) < Len(rhs) THEN <<>>
    ELSE DivLoop(self, rhs, <<>>, Len(self) - 1, Len(self) - Len(rhs))

\* UPolynomial::interpolate: the accumulation `for i .. for j ..` into b
RECURSIVE AccumulateJ(_, _, _, _, _, _)
AccumulateJ(b, numerator, y, y_slice, j, n) ==
    IF b = PanicPoly \/ j > n THEN b
    ELSE IF numerator[j] # FpZero /\ y # FpZero
         THEN LET grown == IF Len(b) <= j - 1 THEN Append(b, FpZero) ELSE b
              IN  IF Len(grown) < j THEN PanicPoly
                  ELSE AccumulateJ(
                         [grown EXCEPT ![j] =
                              FpAdd(grown[j], FpMul(numerator[j], y_slice))],
                         numerator, y, y_slice, j + 1, n)
         ELSE AccumulateJ(b, numerator, y, y_slice, j + 1, n)
RECURSIVE AccumulateI(_, _, _, _, _)
AccumulateI(b, numerators, ys, inv_denominators, i) ==
    IF b = PanicPoly \/ i > Len(ys) THEN b
    ELSE AccumulateI(
             AccumulateJ(b, numerators[i], ys[i],
                         FpMul(ys[i], inv_denominators[i]), 1, Len(ys)),
             numerators, ys, inv_denominators, i + 1)
interpolate(points) ==
    LET xs == [i \in 1 .. Len(points) |-> points[i][1]]
        ys == [i \in 1 .. Len(points) |-> points[i][2]]
        root == zero_at_given_x(xs)
        numerators == [i \in 1 .. Len(xs) |-> UDiv(root, <<FpNeg(xs[i]), FpOne>>)]
        denominator == [i \in 1 .. Len(xs) |-> UEval(numerators[i], <<xs[i]>>)]
    IN  IF Len(root) # Len(points) + 1 THEN <<>>
        ELSE IF \E i \in 1 .. Len(xs) : denominator[i] = Panic THEN PanicPoly
        ELSE AccumulateI(<<>>, numerators, ys, multi_inv(denominator), 1)

(***************************************************************************)
(* mpolynomial.rs.  An MPolynomial is [coefficients, powers].              *)
(***************************************************************************)
number_of_vars(p) == Len(p.powers)

RECURSIVE MEvalLoop(_, _, _, _)
MEvalLoop(p, x, i, result) ==
    IF i > Len(p.coefficients) THEN result
    ELSE MEvalLoop(p, x, i + 1,
            IF i <= Len(p.powers)
            THEN FpAdd(result, FpMul(p.coefficients[i], FpPow(x[i], p.powers[i])))
            ELSE FpAdd(result, p.coefficients[i]))
MEval(p, x) ==
    IF Len(x) # Len(p.powers) THEN Panic ELSE MEvalLoop(p, x, 1, 0)

RECURSIVE DegreeIndLoop(_, _, _)
DegreeIndLoop(powers, i, result) ==
    IF i > Len(powers) THEN result
    ELSE DegreeIndLoop(powers, i + 1,
                       IF powers[i] > result THEN powers[i] ELSE result)
degree_ind(p) == DegreeIndLoop(p.powers, 1, 0)

\* the assignment `x` of iteration i: initial_x, then the bits (i >> j) & 1
CubePoint(initial_x, free, i) ==
    initial_x \o [j \in 1 .. free |-> (i \div (2 ^ (j - 1))) % 2]
RECURSIVE CubeLoop(_, _, _, _, _)
CubeLoop(p, initial_x, free, i, result) ==
    IF i >= 2 ^ free THEN result
    ELSE LET e == MEval(p, CubePoint(initial_x, free, i))
         IN  IF e = Panic THEN Panic
             ELSE CubeLoop(p, initial_x, free, i + 1, FpAdd(result, e))
\* provided_x = None is the empty prefix.  A prefix longer than the variables
\* underflows `vars_len as u32 - initial_x.len() as u32`.
sum_over_hyper_cube(p, initial_x) ==
    IF Len(initial_x) > Len(p.powers) THEN Panic
    ELSE CubeLoop(p, initial_x, Len(p.powers) - Len(initial_x), 0, 0)

fix_var_over_hyper_cube(p, initial_x) ==
    LET first_result == sum_over_hyper_cube(p, Append(initial_x, 0))
        second_result == sum_over_hyper_cube(p, Append(initial_x, 1))
    IN  IF first_result = Panic \/ second_result = Panic THEN PanicPoly
        ELSE interpolate(<<<<0, first_result>>, <<1, second_result>>>>)

(***************************************************************************)
(* lib.rs: SumcheckProtocol.  Option<UPolynomial> is a record.             *)
(***************************************************************************)
None == [some |-> FALSE, coefficients |-> <<>>]
Some(coefficients) == [some |-> TRUE, coefficients |-> coefficients]

\* The statement polynomials the engine is built around: those of the
\* crate's tests (lib.rs:94-95, mpolynomial.rs:102-103) and small ones with
\* one, two and three variables, with and without the trailing constant.
Statements ==
    { [coefficients |-> <<2, 3, 5, 7>>, powers |-> <<1, 1, 1>>],
      [coefficients |-> <<3, 5>>,       powers |-> <<2>>],
      [coefficients |-> <<1>>,          powers |-> <<1>>],
      [coefficients |-> <<4, 6>>,       powers |-> <<1>>],
      [coefficients |-> <<1, 2>>,       powers |-> <<1, 1>>],
      [coefficients |-> <<5, 1, 3>>,    powers |-> <<1, 1>>],
      [coefficients |-> <<5, 1, 10>>,   powers |-> <<1, 1>>],
      [coefficients |-> <<2, 9>>,       powers |-> <<0>>],
      [coefficients |-> <<3, 1, 4>>,    powers |-> <<2, 1>>] }

\* Fp::sample(): Fp::from(random::<u64>())
Samples == {FpFrom(w) : w \in 0 .. MaxSample}

\* SumcheckProtocol::new
EngineNew(p) ==
    /\ polynomial = p
    /\ interaction_completed = FALSE
    /\ randomness = <<>>
    /\ statement = 0
    /\ step = 0
    /\ previous_step = None
    /\ aborted = FALSE
    /\ call = [op |-> "new", rec |-> None, ret |-> None]
    /\ honest = TRUE
    /\ rounds = 0

\* SumcheckProtocol::prove
Prove ==
    /\ ~aborted
    /\ call' = [op |-> "prove", rec |-> None,
                ret |-> IF step > number_of_vars(polynomial) \/ interaction_completed
                        THEN None
                        ELSE Some(fix_var_over_hyper_cube(polynomial, randomness))]
    /\ statement' = IF step > number_of_vars(polynomial) \/ interaction_completed
                    THEN statement
                    ELSE IF statement = 0
                         THEN sum_over_hyper_cube(polynomial, <<>>)
                         ELSE statement
    /\ aborted' = (statement' = Panic \/ call'.ret.coefficients = PanicPoly)
    /\ honest' = (honest /\ call.op \in {"new", "verify"})
    /\ UNCHANGED <<polynomial, interaction_completed, randomness, step,
                   previous_step, rounds>>
    /\ UNCHANGED <<fpVars, upVars>>

\* The fields verify may write.  returned: verify has returned or panicked.
Engine == [interaction_completed |-> interaction_completed,
           randomness |-> randomness, step |-> step,
           previous_step |-> previous_step,
           aborted |-> FALSE, returned |-> FALSE]
Abort(e) == [e EXCEPT !.aborted = TRUE, !.returned = TRUE]
Return(e) == [e EXCEPT !.returned = TRUE]

\* DegreeAssert comparing with `<=` against one degree too many
DegreeAssertOffByOne(rec) ==
    \A d \in degree(rec.coefficients) :
        d # Panic /\ d <= degree_ind(polynomial) + 1
\* lib.rs:51  assert!(rec_polynomial.degree() <= self.polynomial.degree_ind())
DegreeAssert(rec) ==
    \A d \in degree(rec.coefficients) : d # Panic /\ d <= degree_ind(polynomial)

\* VerifyRound checking every round against the claimed sum only
VerifyRoundForgetsPrevious(rec) ==
    LET res1 == UEval(rec.coefficients, <<0>>)
        res2 == UEval(rec.coefficients, <<1>>)
        stored == [Engine EXCEPT !.previous_step = rec]
    IN  IF res1 = Panic \/ res2 = Panic THEN Abort(Engine)
        ELSE IF FpAdd(res1, res2) # statement THEN Abort(stored)
        ELSE stored
\* lib.rs:54-65: p(0) + p(1) against the claimed sum or the previous round
VerifyRound(rec) ==
    LET res1 == UEval(rec.coefficients, <<0>>)
        res2 == UEval(rec.coefficients, <<1>>)
        stored == [Engine EXCEPT !.previous_step = rec]
    IN  IF res1 = Panic \/ res2 = Panic THEN Abort(Engine)
        ELSE IF ~previous_step.some
        THEN IF FpAdd(res1, res2) # statement THEN Abort(stored) ELSE stored
        ELSE IF Len(randomness) = 0 THEN Abort(Engine)
        ELSE LET latest == UEval(previous_step.coefficients,
                                 <<randomness[Len(randomness)]>>)
             IN  IF latest = Panic \/ FpAdd(res1, res2) # latest
                 THEN Abort(Engine)
                 ELSE stored

\* VerifyHead asserting the degree before looking at the completed flag
VerifyHeadAssertsFirst(rec) ==
    IF ~rec.some THEN Abort(Engine)
    ELSE IF ~DegreeAssert(rec) THEN Abort(Engine)
    ELSE IF interaction_completed THEN Return(Engine)
    ELSE VerifyRound(rec)
\* lib.rs:45-65: verify up to the place where it samples a challenge
VerifyHead(rec) ==
    IF ~rec.some THEN Abort(Engine)
    ELSE IF interaction_completed THEN Return(Engine)
    ELSE IF ~DegreeAssert(rec) THEN Abort(Engine)
    ELSE VerifyRound(rec)

\* VerifyTail advancing the round counter in the last round as well
VerifyTailCountsLastRound(e, rec, c) ==
    IF Len(e.randomness) = number_of_vars(polynomial) - 1
    THEN LET pushed == [e EXCEPT !.randomness = Append(e.randomness, c),
                                 !.step = e.step + 1]
             lhs == MEval(polynomial, pushed.randomness)
             rhs == UEval(rec.coefficients, <<c>>)
         IN  IF lhs = Panic \/ rhs = Panic \/ lhs # rhs THEN Abort(pushed)
             ELSE Return([pushed EXCEPT !.interaction_completed = TRUE])
    ELSE Return([e EXCEPT !.step = e.step + 1,
                          !.randomness = Append(e.randomness, c)])
\* lib.rs:67-78: the last round, or one more round; c is the sampled challenge
VerifyTail(e, rec, c) ==
    IF Len(e.randomness) = number_of_vars(polynomial) - 1
    THEN LET pushed == [e EXCEPT !.randomness = Append(e.randomness, c)]
             lhs == MEval(polynomial, pushed.randomness)
             rhs == UEval(rec.coefficients, <<c>>)
         IN  IF lhs = Panic \/ rhs = Panic \/ lhs # rhs THEN Abort(pushed)
             ELSE Return([pushed EXCEPT !.interaction_completed = TRUE])
    ELSE Return([e EXCEPT !.step = e.step + 1,
                          !.randomness = Append(e.randomness, c)])

\* SumcheckProtocol::verify as a whole
VerifyEffect(rec, c) ==
    LET head == VerifyHead(rec)
    IN  IF head.returned THEN head ELSE VerifyTail(head, rec, c)

\* What a caller may hand to verify: nothing, the message prove returned,
\* that message with its constant term changed, that message changed so
\* that p(0) + p(1) stays the same, and polynomials built from scratch.
RECURSIVE SeqsOfLen(_, _)
SeqsOfLen(S, n) ==
    IF n = 0 THEN {<<>>}
    ELSE {Append(q, v) : q \in SeqsOfLen(S, n - 1), v \in S}
TamperVals == 0 .. MaxTamper
Scratch == UNION {SeqsOfLen(TamperVals, n) : n \in 0 .. MaxTamperLen}
WrongConstant(m) ==
    IF Len(m) = 0 THEN {}
    ELSE {[m EXCEPT ![Len(m)] = FpAdd(m[Len(m)], d)] : d \in 1 .. MaxTamper}
SameSum(m) ==
    IF Len(m) # 2 THEN {}
    ELSE {<<FpAdd(m[1], FpMul(2, d)), FpSub(m[2], d)>> : d \in 1 .. MaxTamper}
Received ==
    LET held == IF call.op = "prove" /\ call.ret.some
                THEN {call.ret.coefficients} ELSE {}
        tampered == UNION {WrongConstant(m) \cup SameSum(m) : m \in held}
    IN  {None} \cup {Some(m) : m \in held \cup tampered \cup Scratch}

Verify(rec, c) ==
    /\ ~aborted
    /\ rounds < MaxRounds
    /\ LET e == VerifyEffect(rec, c)
       IN  /\ interaction_completed' = e.interaction_completed
           /\ randomness' = e.randomness
           /\ step' = e.step
           /\ previous_step' = e.previous_step
           /\ aborted' = e.aborted
    /\ call' = [op |-> "verify", rec |-> rec, ret |-> None]
    /\ honest' = (honest /\ call.op = "prove" /\ rec = call.ret)
    /\ rounds' = rounds + 1
    /\ UNCHANGED <<polynomial, statement>>
    /\ UNCHANGED <<fpVars, upVars>>

\* verify called with any of these; it stops before it samples a challenge
VerifyStopped ==
    \E rec \in Received : VerifyHead(rec).returned /\ Verify(rec, FpZero)
\* or it goes on, and Fp::sample() returns any of the samples
VerifySampling ==
    \E rec \in Received :
        ~VerifyHead(rec).returned /\ \E c \in Samples : Verify(rec, c)

\* SumcheckProtocol::is_verifier_accept
is_verifier_accept == interaction_completed

(***************************************************************************)
(* Field computations: the operators of fp.rs applied to two elements,     *)
(* Fp::inverse followed through its loop.                                  *)
(***************************************************************************)
NoLoop == [at |-> "return", u |-> 1, v |-> 1, s |-> 0, r |-> 0]

FpStart(a, b) ==
    /\ fp_a = a /\ fp_b = b
    /\ fp_pc = "idle" /\ fp_loop = NoLoop
    /\ fp_op = "none" /\ fp_out = <<>>

Finish(op, out) ==
    /\ fp_op' = op /\ fp_out' = out
    /\ fp_pc' = "idle" /\ fp_loop' = NoLoop
    /\ UNCHANGED <<fp_a, fp_b, engineVars, upVars>>

OpAdd == fp_pc = "idle" /\ Finish("add", <<FpAdd(fp_a, fp_b)>>)
OpSub == fp_pc = "idle" /\ Finish("sub", <<FpSub(fp_a, fp_b)>>)
OpMul == fp_pc = "idle" /\ Finish("mul", <<FpMul(fp_a, fp_b)>>)
OpFpNeg == fp_pc = "idle" /\ Finish("Fp::neg", <<FpNeg(fp_a)>>)
OpNeg == fp_pc = "idle" /\ Finish("Neg::neg", <<NegOp(fp_a)>>)
OpPow(p0) == fp_pc = "idle" /\ Finish("pow", <<FpPow(fp_a, p0)>>)
OpMultiInv == fp_pc = "idle" /\ Finish("multi_inv", multi_inv(<<fp_a, fp_b>>))

\* Fp::inverse(fp_a), up to the loop
InverseCall ==
    /\ fp_pc = "idle"
    /\ IF fp_a = 0 THEN Finish("inverse", <<0>>)
       ELSE /\ fp_pc' = "inverse" /\ fp_loop' = InverseEnter(fp_a)
            /\ fp_op' = "none" /\ fp_out' = <<>>
            /\ UNCHANGED <<fp_a, fp_b, engineVars, upVars>>
\* fp_a / fp_b, up to the loop of b.inverse()
DivCall ==
    /\ fp_pc = "idle"
    /\ IF FpFrom(fp_b) = 0 THEN Finish("div", <<FpMul(FpFrom(fp_a), 0)>>)
       ELSE /\ fp_pc' = "div" /\ fp_loop' = InverseEnter(FpFrom(fp_b))
            /\ fp_op' = "none" /\ fp_out' = <<>>
            /\ UNCHANGED <<fp_a, fp_b, engineVars, upVars>>
InverseLoopStep ==
    /\ fp_pc \in {"inverse", "div"}
    /\ fp_loop.at # "return"
    /\ fp_loop' = InverseStep(fp_loop)
    /\ UNCHANGED <<fp_a, fp_b, fp_pc, fp_op, fp_out, engineVars, upVars>>
InverseDone ==
    /\ fp_pc \in {"inverse", "div"}
    /\ fp_loop.at = "return"
    /\ Finish(fp_pc, IF fp_pc = "inverse" THEN <<InverseReturn(fp_loop)>>
                     ELSE <<FpMul(FpFrom(fp_a), InverseReturn(fp_loop))>>)

(***************************************************************************)
(* Polynomial computations: the routines of upolynomial.rs applied to a    *)
(* list of points the caller has built.                                    *)
(***************************************************************************)
Coords == {FpFrom(w) : w \in 0 .. MaxCoord}
Xs(points) == [i \in 1 .. Len(points) |-> points[i][1]]
Ys(points) == [i \in 1 .. Len(points) |-> points[i][2]]

UpStart(points) == up_points = points /\ up_op = "none" /\ up_out = <<>>

\* the caller pushes one more (x, y) pair onto its vector of points
PushPoint(x, y) ==
    /\ up_op = "none"
    /\ Len(up_points) < MaxPoints
    /\ up_points' = Append(up_points, <<x, y>>)
    /\ UNCHANGED <<up_op, up_out, engineVars, fpVars>>
CallInterpolate ==
    /\ Len(up_points) >= 1
    /\ up_op' = "interpolate"
    /\ up_out' = interpolate(up_points)
    /\ UNCHANGED <<up_points, engineVars, fpVars>>
CallZeroAtGivenX ==
    /\ Len(up_points) >= 1
    /\ up_op' = "zero_at_given_x"
    /\ up_out' = zero_at_given_x(Xs(up_points))
    /\ UNCHANGED <<up_points, engineVars, fpVars>>

(***************************************************************************)
(* Specifications.  Each follows one component and leaves the others idle. *)
(***************************************************************************)
EngineIdle == EngineNew([coefficients |-> <<>>, powers |-> <<>>])
FpIdle == FpStart(0, 0)
UpIdle == UpStart(<<>>)

\* the engine, driven by any caller
Init == (\E p \in Statements : EngineNew(p)) /\ FpIdle /\ UpIdle
Next ==
    \/ Prove
    \/ VerifyStopped
    \/ VerifySampling
Spec == Init /\ [][Next]_vars

\* field arithmetic on every pair of canonical elements
InitFp == EngineIdle /\ (\E a \in Field, b \in Field : FpStart(a, b)) /\ UpIdle
NextFp ==
    \/ OpAdd
    \/ OpSub
    \/ OpMul
    \/ OpFpNeg
    \/ OpNeg
    \/ \E p0 \in 0 .. MaxExp : OpPow(p0)
    \/ OpMultiInv
    \/ InverseCall
    \/ DivCall
    \/ InverseLoopStep
    \/ InverseDone
\* the code is sequential: a loop that can take a step takes it
SpecFp ==
    InitFp /\ [][NextFp]_vars /\ WF_vars(InverseLoopStep) /\ WF_vars(InverseDone)

\* the polynomial routines on every short list of points
InitUp == EngineIdle /\ FpIdle /\ UpStart(<<>>)
NextUp ==
    \/ \E x \in Coords, y \in Coords : PushPoint(x, y)
    \/ CallInterpolate
    \/ CallZeroAtGivenX
SpecUp == InitUp /\ [][NextUp]_vars


(***************************************************************************)
(* The claims about the engine (specification Spec).                       *)
(***************************************************************************)
NumVars == number_of_vars(polynomial)
AllPowersOne == \A i \in 1 .. Len(polynomial.powers) : polynomial.powers[i] = 1

\* p(0) + p(1) of a received polynomial, as verify computes it
RoundSum(rec) ==
    LET res1 == UEval(rec.coefficients, <<0>>)
        res2 == UEval(rec.coefficients, <<1>>)
    IN  IF res1 = Panic \/ res2 = Panic THEN Panic ELSE FpAdd(res1, res2)
\* what it has to equal: the claimed total sum in the first round, the
\* previous round polynomial at the latest challenge in a later round
RoundTarget ==
    IF Len(randomness) = 0 THEN statement
    ELSE UEval(previous_step.coefficients, <<randomness[Len(randomness)]>>)
Inconsistent(rec) == rec.some /\ RoundSum(rec) # RoundTarget

\* C1: in a run of strictly alternating prove(), verify(result) calls on a
\* statement whose powers are all 1, no call aborts, and the verifier
\* accepts after the n-th verify call and not before.
C1_HonestRunAccepts ==
    (honest /\ AllPowersOne /\ NumVars >= 1 /\ rounds <= NumVars)
        => (~aborted /\ (is_verifier_accept <=> rounds = NumVars))

\* C2: while the interaction is not completed, a verify call given a
\* polynomial whose p(0) + p(1) differs from the claimed sum (first round)
\* or from the previous round polynomial at the latest challenge (later
\* rounds) aborts the run, and the verifier does not accept.
C2_TamperingAborts ==
    [][ (call'.op = "verify" /\ ~aborted /\ ~interaction_completed
            /\ Inconsistent(call'.rec))
        => (aborted' /\ ~interaction_completed') ]_vars
\* a later round was aborted by a two-coefficient polynomial of the wrong sum
C2_Witness ==
    /\ aborted /\ call.op = "verify" /\ call.rec.some
    /\ Len(call.rec.coefficients) = 2
    /\ Len(randomness) >= 1 /\ Len(randomness) < NumVars
    /\ DegreeAssert(call.rec)
    /\ Inconsistent(call.rec)

\* C3: while the interaction is not completed, a verify call given a
\* polynomial whose degree (coefficient count minus 1) exceeds the
\* statement's individual degree aborts the run, appends no challenge and
\* does not set accept.
C3_DegreeBound ==
    [][ (call'.op = "verify" /\ ~aborted /\ ~interaction_completed
            /\ call'.rec.some
            /\ Len(call'.rec.coefficients) - 1 > degree_ind(polynomial))
        => (aborted' /\ randomness' = randomness /\ ~interaction_completed') ]_vars
\* only its degree is wrong with the aborted polynomial: its sum is the
\* claimed one
C3_Witness ==
    /\ aborted /\ call.op = "verify" /\ call.rec.some
    /\ Len(call.rec.coefficients) - 1 > degree_ind(polynomial)
    /\ Len(randomness) = 0
    /\ RoundSum(call.rec) = statement

\* C4: once the interaction has completed, prove returns no message, and
\* prove and verify with a present polynomial neither abort nor change the
\* challenges, the round counter, the previous round polynomial, the
\* claimed sum or the completed flag.
C4_TerminalAbsorbing ==
    [][ interaction_completed =>
          /\ interaction_completed'
          /\ call'.op = "prove" => call'.ret = None
          /\ (call'.op = "prove" \/ call'.rec.some) =>
                /\ ~aborted'
                /\ UNCHANGED <<randomness, step, previous_step, statement,
                               interaction_completed>> ]_vars
\* verify was called after completion with a polynomial of degree above 1
C4_Witness ==
    /\ interaction_completed /\ ~aborted
    /\ call.op = "verify" /\ call.rec.some
    /\ rounds > NumVars
    /\ Len(call.rec.coefficients) > 2

\* C10: in a run that has not aborted, before completion the number of
\* stored challenges equals the round counter and is at most n - 1; after
\* completion there are exactly n challenges and the round counter is
\* n - 1; prove changes neither the challenges, the round counter, the
\* previous round polynomial nor the completed flag.
EngineInvariant ==
    ~aborted =>
        /\ ~interaction_completed =>
              (Len(randomness) = step /\ step <= NumVars - 1)
        /\ interaction_completed =>
              (Len(randomness) = NumVars /\ step = NumVars - 1)
        /\ step <= NumVars
C10_EngineInvariant ==
    /\ EngineInvariant
    /\ [][ /\ EngineInvariant'
           /\ call'.op = "prove" =>
                 UNCHANGED <<randomness, step, previous_step,
                             interaction_completed>> ]_vars
\* a run over three variables was accepted and prove was called again
C10_Witness ==
    /\ interaction_completed /\ ~aborted
    /\ NumVars = 3 /\ Len(randomness) = 3
    /\ call.op = "prove"

(***************************************************************************)
(* The claims about the field (specification SpecFp).                      *)
(***************************************************************************)
\* C8: every result of add, sub, mul, div, Fp::neg, Neg::neg, pow, inverse
\* and multi_inv on canonical elements is canonical.
C8_CanonicalResults == \A i \in 1 .. Len(fp_out) : Canonical(fp_out[i])

\* the element Fp::inverse is inverting
Inverted == IF fp_pc = "inverse" THEN fp_a ELSE FpFrom(fp_b)
\* C9: Fp::inverse terminates; a * inverse(a) = 1 for a # 0, inverse(0) = 0,
\* (a / b) * b = a for b # 0; inside the loop both cofactors stay reduced
\* words that carry the running remainders: x * s = v and x * r = u in the
\* field, for the inverted element x.
InverseInvariant ==
    /\ fp_pc \in {"inverse", "div"} =>
          /\ fp_loop.s \in Field /\ fp_loop.r \in Field
          /\ fp_loop.u \in 0 .. MODULO /\ fp_loop.v \in 0 .. MODULO
          /\ FpMul(Inverted, fp_loop.s) = FpFrom(fp_loop.v)
          /\ FpMul(Inverted, fp_loop.r) = FpFrom(fp_loop.u)
    /\ fp_op = "inverse" =>
          FpMul(fp_a, fp_out[1]) = (IF fp_a = 0 THEN 0 ELSE 1)
    /\ (fp_op = "inverse" /\ fp_a = 0) => fp_out[1] = 0
    /\ (fp_op = "div" /\ fp_b # 0) => FpMul(fp_out[1], fp_b) = fp_a
C9_Inverse ==
    /\ []InverseInvariant
    /\ (fp_pc # "idle") ~> (fp_pc = "idle")
\* a division by an element other than 0 and 1 has gone through the loop
C9_Witness ==
    /\ fp_op = "div" /\ fp_a # 0 /\ fp_b > 1
    /\ FpMul(fp_out[1], fp_b) = fp_a

(***************************************************************************)
(* The claims about the polynomials (specification SpecUp).                *)
(***************************************************************************)
DistinctXs(points) ==
    \A i, j \in 1 .. Len(points) : i # j => points[i][1] # points[j][1]
\* x repeated once per assignment entry eval asks for
Repeat(x, n) == [k \in 1 .. n |-> x]
EvalAt(coefficients, x) == UEval(coefficients, Repeat(x, Len(coefficients) - 1))

\* C5: interpolate on n >= 1 points with pairwise distinct x returns,
\* without failing, a polynomial of degree < n that evaluates to y_i at
\* every x_i.
C5_InterpolateRoundTrip ==
    (up_op = "interpolate" /\ DistinctXs(up_points)) =>
        /\ up_out # PanicPoly
        /\ Len(up_out) >= 1 /\ Len(up_out) - 1 < Len(up_points)
        /\ \A i \in 1 .. Len(up_points) :
               EvalAt(up_out, up_points[i][1]) = up_points[i][2]

\* C6: zero_at_given_x returns a polynomial of degree equal to the number
\* of roots that eval finds to be zero at every root.
C6_RootsAreZeros ==
    up_op = "zero_at_given_x" =>
        /\ Len(up_out) - 1 = Len(up_points)
        /\ \A i \in 1 .. Len(up_points) : EvalAt(up_out, up_points[i][1]) = 0

\* C7: interpolate on points of which two share their x returns the empty
\* coefficient sequence.
C7_DuplicateSentinel ==
    (up_op = "interpolate" /\ ~DistinctXs(up_points)) => up_out = <<>>

==========================================================================
